---------------------------- MODULE Spec2Model ----------------------------
(***************************************************************************)
(* Model of the duplicate-company-name finder (src/index.ts).              *)
(*                                                                         *)
(* A JavaScript string is modelled as the sequence of its UTF-16 code      *)
(* units (natural numbers), so "Acme" is <<65, 99, 109, 101>>.  The        *)
(* character tables below cover the code units 0..383 (Basic Latin,        *)
(* Latin-1 Supplement, Latin Extended-A) and the combining marks           *)
(* 768..879; every string used by the specifications stays inside that     *)
(* repertoire.                                                             *)
(***************************************************************************)
EXTENDS Integers, Sequences, FiniteSets, TLC

VARIABLES
  names,               \* findDuplicates parameter: the raw names, in input order
  normalizedNamesMap,  \* findDuplicates parameter: raw name -> normalized name
  groups,              \* const groups: string[][]
  processed,           \* const processed = new Set<string>()
  i,                   \* outer loop index (0-based, as in the code)
  j,                   \* inner loop index (0-based)
  group,               \* const group: the group being collected for names[i]
  normalizedNameI,     \* const normalizedNameI
  pc,                  \* position inside findDuplicates ("threw": ended by an exception)
  groupAt,             \* history: input positions of the members of group
  groupsAt,            \* history: input positions of the members of each pushed group
  compared,            \* history: pairs <<i, j>> handed to levenshteinDistance
  scans,               \* history: how the scan of each seed ended
  input,               \* normalizeCompanyName parameter (name)
  output,              \* normalizeCompanyName return value
  npc                  \* position of the normalizeCompanyName call

vars == << names, normalizedNamesMap, groups, processed, i, j, group,
           normalizedNameI, pc, groupAt, groupsAt, compared, scans,
           input, output, npc >>

clusterVars == << names, normalizedNamesMap, groups, processed, i, j, group,
                  normalizedNameI, pc, groupAt, groupsAt, compared, scans >>

normVars == << input, output, npc >>

-----------------------------------------------------------------------------
(* Program constants *)

LEVENSHTEIN_THRESHOLD == 1

LENGTH_GAP_LIMIT == 10

COMPANY_TYPES ==
  <<
     <<105,110,99>>,  \* inc
     <<108,116,100>>,  \* ltd
     <<99,111,114,112>>,  \* corp
     <<99,111,114,112,111,114,97,116,105,111,110>>,  \* corporation
     <<99,111,109,112,97,110,121>>,  \* company
     <<99,111>>,  \* co
     <<108,108,99>>,  \* llc
     <<115,114,108>>,  \* srl
     <<115,114,108,115>>,  \* srls
     <<103,109,98,104>>,  \* gmbh
     <<115,97>>,  \* sa
     <<115,97,115>>,  \* sas
     <<111,121>>,  \* oy
     <<97,98>>,  \* ab
     <<98,118>>,  \* bv
     <<97,103>>,  \* ag
     <<107,103>>,  \* kg
     <<107,102,116>>,  \* kft
     <<112,116,101>>,  \* pte
     <<112,108,99>>,  \* plc
     <<108,116,100,97>>,  \* ltda
     <<115,112,97>>,  \* spa
     <<110,118>>,  \* nv
     <<97,115>>,  \* as
     <<97,112,115>>,  \* aps
     <<115,114,111>>,  \* sro
     <<122,114,116>>,  \* zrt
     <<111,111,111>>,  \* ooo
     <<115,100,101>>,  \* sde
     <<107,100,97>>,  \* kda
     <<107,107>>,  \* kk
     <<107,97,98,117,115,104,105,107,105>>,  \* kabushiki
     <<107,97,105,115,104,97>>,  \* kaisha
     <<112,116,121>>,  \* pty
     <<108,105,109,105,116,101,100>>,  \* limited
     <<117,110,108,105,109,105,116,101,100>>,  \* unlimited
     <<112,97,114,116,110,101,114,115,104,105,112>>,  \* partnership
     <<108,108,112>>,  \* llp
     <<108,108,108,112>>,  \* lllp
     <<108,112>>,  \* lp
     <<117,108,99>>,  \* ulc
     <<105,110,99,111,114,112,111,114,97,116,101,100>>,  \* incorporated
     <<115,111,99,105,101,100,97,100>>,  \* sociedad
     <<97,110,111,110,105,109,97>>,  \* anonima
     <<103,101,115,101,108,108,115,99,104,97,102,116>>,  \* gesellschaft
     <<109,105,116>>,  \* mit
     <<98,101,115,99,104,114,97,110,107,116,101,114>>,  \* beschrankter
     <<104,97,102,116,117,110,103>>,  \* haftung
     <<97,107,116,105,101,110,103,101,115,101,108,108,115,99,104,97,102,116>>,  \* aktiengesellschaft
     <<115,111,99,105,101,116,97>>,  \* societa
     <<114,101,115,112,111,110,115,97,98,105,108,105,116,97>>,  \* responsabilita
     <<108,105,109,105,116,97,116>>,  \* limitat
     <<115,111,99,105,101,116,101>>,  \* societe
     <<97,110,111,110,121,109,101>>,  \* anonyme
     <<110,97,97,109,108,111,122,101>>,  \* naamloze
     <<118,101,110,110,111,111,116,115,99,104,97,112>>,  \* vennootschap
     <<97,107,116,105,101,115,101,108,115,107,97,98>>,  \* aktieselskab
     <<97,107,116,105,101,98,111,108,97,103>>,  \* aktiebolag
     <<115,111,99,105,101,116,97,116,101>>,  \* societate
     <<99,117>>,  \* cu
     <<114,97,115,112,117,110,100,101,114,101>>,  \* raspundere
     <<108,105,109,105,116,97,116,97>>,  \* limitata
     <<111,115,97,107,101,121,104,116,105,111>>,  \* osakeyhtio
     <<121,104,116,105,111,116>>,  \* yhtiot
     <<107,111,114,108,225,116,111,108,116>>,  \* korl?tolt
     <<102,101,108,101,108,337,115,115,233,103,369>>,  \* felel?ss?g?
     <<116,225,114,115,97,115,225,103>>,  \* t?rsas?g
     <<97,110,115,118,97,114>>   \* ansvar
  >>

-----------------------------------------------------------------------------
(* Sequence helpers *)

RECURSIVE Concat(_)
Concat(ss) == IF ss = << >> THEN << >> ELSE Head(ss) \o Concat(Tail(ss))

Abs(x) == IF x < 0 THEN -x ELSE x

Min2(a, b) == IF a <= b THEN a ELSE b

-----------------------------------------------------------------------------
(* String.prototype.toLowerCase, per code unit *)

LowerUnit(c) ==
  IF (65 <= c /\ c <= 90) \/ (192 <= c /\ c <= 214) \/ (216 <= c /\ c <= 222)
    THEN << c + 32 >>
  ELSE IF c = 304 THEN << 105, 775 >>
  ELSE IF c = 376 THEN << 255 >>
  ELSE IF ((256 <= c /\ c <= 303) \/ (306 <= c /\ c <= 311) \/ (330 <= c /\ c <= 375))
          /\ c % 2 = 0
    THEN << c + 1 >>
  ELSE IF ((313 <= c /\ c <= 328) \/ (377 <= c /\ c <= 382)) /\ c % 2 = 1
    THEN << c + 1 >>
  ELSE << c >>

toLowerCase(s) == Concat([k \in 1..Len(s) |-> LowerUnit(s[k])])

-----------------------------------------------------------------------------
(* String.prototype.normalize('NFD'): canonical decomposition followed by  *)
(* canonical reordering of the combining marks.                            *)

NFDTable ==
  << <<65,768>>, <<65,769>>, <<65,770>>, <<65,771>>, <<65,776>>, <<65,778>>, <<198>>, 
     <<67,807>>, <<69,768>>, <<69,769>>, <<69,770>>, <<69,776>>, <<73,768>>, <<73,769>>, 
     <<73,770>>, <<73,776>>, <<208>>, <<78,771>>, <<79,768>>, <<79,769>>, <<79,770>>, 
     <<79,771>>, <<79,776>>, <<215>>, <<216>>, <<85,768>>, <<85,769>>, <<85,770>>, 
     <<85,776>>, <<89,769>>, <<222>>, <<223>>, <<97,768>>, <<97,769>>, <<97,770>>, 
     <<97,771>>, <<97,776>>, <<97,778>>, <<230>>, <<99,807>>, <<101,768>>, <<101,769>>, 
     <<101,770>>, <<101,776>>, <<105,768>>, <<105,769>>, <<105,770>>, <<105,776>>, <<240>>, 
     <<110,771>>, <<111,768>>, <<111,769>>, <<111,770>>, <<111,771>>, <<111,776>>, <<247>>, 
     <<248>>, <<117,768>>, <<117,769>>, <<117,770>>, <<117,776>>, <<121,769>>, <<254>>, 
     <<121,776>>, <<65,772>>, <<97,772>>, <<65,774>>, <<97,774>>, <<65,808>>, <<97,808>>, 
     <<67,769>>, <<99,769>>, <<67,770>>, <<99,770>>, <<67,775>>, <<99,775>>, <<67,780>>, 
     <<99,780>>, <<68,780>>, <<100,780>>, <<272>>, <<273>>, <<69,772>>, <<101,772>>, 
     <<69,774>>, <<101,774>>, <<69,775>>, <<101,775>>, <<69,808>>, <<101,808>>, <<69,780>>, 
     <<101,780>>, <<71,770>>, <<103,770>>, <<71,774>>, <<103,774>>, <<71,775>>, <<103,775>>, 
     <<71,807>>, <<103,807>>, <<72,770>>, <<104,770>>, <<294>>, <<295>>, <<73,771>>, 
     <<105,771>>, <<73,772>>, <<105,772>>, <<73,774>>, <<105,774>>, <<73,808>>, <<105,808>>, 
     <<73,775>>, <<305>>, <<306>>, <<307>>, <<74,770>>, <<106,770>>, <<75,807>>, 
     <<107,807>>, <<312>>, <<76,769>>, <<108,769>>, <<76,807>>, <<108,807>>, <<76,780>>, 
     <<108,780>>, <<319>>, <<320>>, <<321>>, <<322>>, <<78,769>>, <<110,769>>, <<78,807>>, 
     <<110,807>>, <<78,780>>, <<110,780>>, <<329>>, <<330>>, <<331>>, <<79,772>>, 
     <<111,772>>, <<79,774>>, <<111,774>>, <<79,779>>, <<111,779>>, <<338>>, <<339>>, 
     <<82,769>>, <<114,769>>, <<82,807>>, <<114,807>>, <<82,780>>, <<114,780>>, <<83,769>>, 
     <<115,769>>, <<83,770>>, <<115,770>>, <<83,807>>, <<115,807>>, <<83,780>>, <<115,780>>, 
     <<84,807>>, <<116,807>>, <<84,780>>, <<116,780>>, <<358>>, <<359>>, <<85,771>>, 
     <<117,771>>, <<85,772>>, <<117,772>>, <<85,774>>, <<117,774>>, <<85,778>>, <<117,778>>, 
     <<85,779>>, <<117,779>>, <<85,808>>, <<117,808>>, <<87,770>>, <<119,770>>, <<89,770>>, 
     <<121,770>>, <<89,776>>, <<90,769>>, <<122,769>>, <<90,775>>, <<122,775>>, <<90,780>>, 
     <<122,780>>, <<383>> >>

DecomposeUnit(c) ==
  IF 192 <= c /\ c <= 383 THEN NFDTable[c - 191]
  ELSE IF c = 832 THEN << 768 >>
  ELSE IF c = 833 THEN << 769 >>
  ELSE IF c = 835 THEN << 787 >>
  ELSE IF c = 836 THEN << 776, 769 >>
  ELSE << c >>

\* Canonical_Combining_Class of a code unit (0 outside 768..879).
CombiningClass(c) ==
  IF c < 768 \/ c > 879 \/ c = 847 THEN 0
  ELSE IF 820 <= c /\ c <= 824 THEN 1
  ELSE IF c \in {801, 802, 807, 808} THEN 202
  ELSE IF c = 795 THEN 216
  ELSE IF c \in (790..793) \cup (796..800) \cup (803..806) \cup (809..819)
                \cup (825..828) \cup (839..841) \cup (845..846)
                \cup (851..854) \cup (857..858) THEN 220
  ELSE IF c \in {789, 794, 856} THEN 232
  ELSE IF c \in {860, 863, 866} THEN 233
  ELSE IF c \in {861, 862, 864, 865} THEN 234
  ELSE IF c = 837 THEN 240
  ELSE 230

\* Insert mark c into the already ordered run of marks (stable).
RECURSIVE InsertMark(_, _)
InsertMark(run, c) ==
  IF run = << >> THEN << c >>
  ELSE IF CombiningClass(run[Len(run)]) > CombiningClass(c)
    THEN Append(InsertMark(SubSeq(run, 1, Len(run) - 1), c), run[Len(run)])
  ELSE Append(run, c)

\* done: reordered prefix ending before the current run of marks; run: the
\* current run of non-starter marks, ordered.
RECURSIVE Reorder(_, _, _)
Reorder(s, done, run) ==
  IF s = << >> THEN done \o run
  ELSE IF CombiningClass(Head(s)) = 0
    THEN Reorder(Tail(s), done \o run \o << Head(s) >>, << >>)
  ELSE Reorder(Tail(s), done, InsertMark(run, Head(s)))

normalizeNFD(s) ==
  Reorder(Concat([k \in 1..Len(s) |-> DecomposeUnit(s[k])]), << >>, << >>)

-----------------------------------------------------------------------------
(* .replace(/\p{Diacritic}/gu, '') *)

IsDiacritic(c) ==
  \/ c \in {94, 96, 168, 175, 180, 183, 184}
  \/ 688 <= c /\ c <= 767
  \/ 768 <= c /\ c <= 846
  \/ 848 <= c /\ c <= 855
  \/ 861 <= c /\ c <= 866

stripDiacritics(s) == SelectSeq(s, LAMBDA c : ~IsDiacritic(c))

-----------------------------------------------------------------------------
(* .replace(COMPANY_TYPES_REGEX, ''): /\b(inc|ltd|...)\b/gi                 *)

\* \w of a regular expression without the u flag: [A-Za-z0-9_]
WordChars == (48..57) \cup (65..90) \cup {95} \cup (97..122)

\* Canonicalize of the i flag (no u flag): the upper case of a single code
\* unit, unless it is longer than one unit or maps a non-ASCII unit to ASCII.
Canonicalize(c) ==
  IF (97 <= c /\ c <= 122) \/ (224 <= c /\ c <= 246) \/ (248 <= c /\ c <= 254)
    THEN c - 32
  ELSE IF c = 255 THEN 376
  ELSE IF c = 181 THEN 924
  ELSE IF c = 837 THEN 921
  ELSE IF ((257 <= c /\ c <= 303) \/ (307 <= c /\ c <= 311) \/ (331 <= c /\ c <= 375))
          /\ c % 2 = 1
    THEN c - 1
  ELSE IF ((314 <= c /\ c <= 328) \/ (378 <= c /\ c <= 382)) /\ c % 2 = 0
    THEN c - 1
  ELSE c

\* \b between s[p-1] and s[p] (p in 1..Len(s)+1), the word characters being W.
WordBoundary(s, p, W) ==
  LET before == p > 1 /\ s[p - 1] \in W
      after  == p <= Len(s) /\ s[p] \in W
  IN  before # after

\* Token t matches s literally (case-insensitively) from position p on.
TokenAt(s, p, t) ==
  /\ p + Len(t) - 1 <= Len(s)
  /\ \A k \in 1..Len(t) : Canonicalize(s[p + k - 1]) = Canonicalize(t[k])

\* Full match of \b(t)\b at p.
MatchesAt(s, p, t, W) ==
  /\ WordBoundary(s, p, W)
  /\ TokenAt(s, p, t)
  /\ WordBoundary(s, p + Len(t), W)

\* Length of the match of the alternation at p: the first alternative, in the
\* order of COMPANY_TYPES, that lets the whole pattern match; 0 when none does.
MatchLen(s, p, W) ==
  LET hits == { n \in 1..Len(COMPANY_TYPES) : MatchesAt(s, p, COMPANY_TYPES[n], W) }
  IN  IF hits = {} THEN 0
      ELSE Len(COMPANY_TYPES[CHOOSE n \in hits : \A m \in hits : n <= m])

\* The global replace: scan left to right, drop each match, resume after it.
RECURSIVE ReplaceFrom(_, _, _)
ReplaceFrom(s, p, W) ==
  IF p > Len(s) THEN << >>
  ELSE LET n == MatchLen(s, p, W)
       IN  IF n > 0 THEN ReplaceFrom(s, p + n, W)
           ELSE << s[p] >> \o ReplaceFrom(s, p + 1, W)

removeCompanyTypes(s) == ReplaceFrom(s, 1, WordChars)

-----------------------------------------------------------------------------
(* .replace(/\s+/g, ' ') and .trim()                                        *)

\* \s, and the white space and line terminators trim() removes.
IsWhiteSpace(c) == c \in {9, 10, 11, 12, 13, 32, 160}

RECURSIVE collapseWhiteSpace(_)
collapseWhiteSpace(s) ==
  IF s = << >> THEN << >>
  ELSE IF IsWhiteSpace(Head(s))
    THEN IF Len(s) > 1 /\ IsWhiteSpace(s[2])
           THEN collapseWhiteSpace(Tail(s))
           ELSE << 32 >> \o collapseWhiteSpace(Tail(s))
  ELSE << Head(s) >> \o collapseWhiteSpace(Tail(s))

RECURSIVE trimStart(_)
trimStart(s) ==
  IF s # << >> /\ IsWhiteSpace(Head(s)) THEN trimStart(Tail(s)) ELSE s

RECURSIVE trimEnd(_)
trimEnd(s) ==
  IF s # << >> /\ IsWhiteSpace(s[Len(s)])
    THEN trimEnd(SubSeq(s, 1, Len(s) - 1)) ELSE s

trim(s) == trimEnd(trimStart(s))

-----------------------------------------------------------------------------
(* normalizeCompanyName *)

normalizeCompanyName(name) ==
  trim(collapseWhiteSpace(removeCompanyTypes(
    stripDiacritics(normalizeNFD(toLowerCase(name))))))

-----------------------------------------------------------------------------
(* distance() of fastest-levenshtein: the Levenshtein distance of two       *)
(* strings, counted in UTF-16 code units, computed row by row.             *)

\* The row of a_i from the previous row: row holds the cells computed so far.
RECURSIVE LevRow(_, _, _, _)
LevRow(a_i, b, prev, row) ==
  IF Len(row) = Len(prev) THEN row
  ELSE LET k    == Len(row)
           cost == IF a_i = b[k] THEN 0 ELSE 1
           cell == Min2(Min2(prev[k + 1] + 1, row[k] + 1), prev[k] + cost)
       IN  LevRow(a_i, b, prev, Append(row, cell))

RECURSIVE LevRows(_, _, _)
LevRows(a, b, prev) ==
  IF a = << >> THEN prev[Len(prev)]
  ELSE LevRows(Tail(a), b, LevRow(Head(a), b, prev, << prev[1] + 1 >>))

levenshteinDistance(a, b) == LevRows(a, b, [k \in 1..(Len(b) + 1) |-> k - 1])

-----------------------------------------------------------------------------
(* Inputs of the specifications *)

MaxNames == 4

MaxInputLen == 5

RawAcme          == << 65, 99, 109, 101 >>                    \* "Acme"
RawAcmeInc       == << 65, 99, 109, 233, 32, 73, 110, 99 >>   \* "Acme Inc", e with acute
RawAcm           == << 65, 99, 109 >>                         \* "Acm"
RawAcmes         == << 65, 99, 109, 101, 115 >>               \* "Acmes"
RawAcmeSolutions ==
  << 65, 99, 109, 101, 32, 83, 111, 108, 117, 116, 105, 111, 110, 115 >>  \* "Acme Solutions"
RawInc           == << 73, 110, 99 >>                         \* "Inc"
RawA             == << 65 >>                                  \* "A"

RawNames ==
  { RawAcme, RawAcmeInc, RawAcm, RawAcmes, RawAcmeSolutions, RawInc, RawA }

NameLists == UNION { [1..n -> RawNames] : n \in 0..MaxNames }

Range(f) == { f[k] : k \in DOMAIN f }

\* normalizeCompanyName of every raw name of the universe, computed once.
NormalizedNames == [r \in RawNames |-> normalizeCompanyName(r)]

\* The map main builds (lines 103-105), restricted to the raw names in D.
BuiltMap(D) == [r \in D |-> NormalizedNames[r]]

\* The maps findDuplicates is called with: the one main builds for the list,
\* or that map with the entry of one raw name absent.
MapsFor(ns) ==
  { BuiltMap(Range(ns)) } \cup { BuiltMap(Range(ns) \ {r}) : r \in Range(ns) }

\* Code units the inputs of normalizeCompanyName are drawn from:
\* "C" "c" "o" "i" "n" " " and the letters 223 (sharp s) and 233 (e acute).
InputUnits == { 67, 99, 111, 105, 110, 32, 223, 233 }

NormInputs == UNION { [1..n -> InputUnits] : n \in 0..MaxInputLen }

-----------------------------------------------------------------------------
(* findDuplicates *)

\* names[p] for a 0-based index p.
NameAt(p) == names[p + 1]

\* Map.prototype.get: the value, or undefined (no string is << -1 >>).
Undefined == << -1 >>

MapGet(m, k) == IF k \in DOMAIN m THEN m[k] ELSE Undefined

IsString(v) == v # Undefined

\* Seeded fault: the "|| ''" fallback is missing.
OrEmptyNoFallback(v) == v

\* v || '' for v a string or undefined: the empty string and undefined are falsy.
OrEmpty(v) == IF v = Undefined \/ v = << >> THEN << >> ELSE v

\* normalizedNamesMap.get(names[p]) || ''
NormalizedAt(p) == OrEmpty(MapGet(normalizedNamesMap, NameAt(p)))

\* Seeded fault: ">=" instead of ">".
TooDifferentInLengthOffByOne(a, b) == Abs(Len(b) - Len(a)) >= LENGTH_GAP_LIMIT

\* Math.abs(normalizedNameJ.length - normalizedNameI.length) > 10
TooDifferentInLength(a, b) == Abs(Len(b) - Len(a)) > LENGTH_GAP_LIMIT

\* Seeded faults: the comparison with the threshold is off by one, either way.
SimilarEnoughLoose(a, b) == levenshteinDistance(a, b) <= LEVENSHTEIN_THRESHOLD + 1

SimilarEnoughStrict(a, b) == levenshteinDistance(a, b) < LEVENSHTEIN_THRESHOLD

\* levenshteinDistance(normalizedNameI, normalizedNameJ) <= LEVENSHTEIN_THRESHOLD
SimilarEnough(a, b) == levenshteinDistance(a, b) <= LEVENSHTEIN_THRESHOLD

histVarsSame == UNCHANGED << groupAt, groupsAt, compared, scans >>

\* The call findDuplicates(names, normalizedNamesMap), at the head of the outer loop.
Init ==
  /\ names \in NameLists
  /\ normalizedNamesMap \in MapsFor(names)
  /\ groups = << >>
  /\ processed = {}
  /\ i = 0
  /\ j = 0
  /\ group = << >>
  /\ normalizedNameI = << >>
  /\ pc = "outer"
  /\ groupAt = << >>
  /\ groupsAt = << >>
  /\ compared = {}
  /\ scans = {}
  /\ input = << >>
  /\ output = << >>
  /\ npc = "idle"

\* Lines 53-56: names[i] is already processed, continue.
OuterSkip ==
  /\ pc = "outer"
  /\ i < Len(names)
  /\ NameAt(i) \in processed
  /\ i' = i + 1
  /\ UNCHANGED << names, normalizedNamesMap, groups, processed, j, group,
                  normalizedNameI, pc >>
  /\ histVarsSame
  /\ UNCHANGED normVars

\* Lines 58-60: start a new group with names[i].
StartGroup ==
  /\ pc = "outer"
  /\ i < Len(names)
  /\ NameAt(i) \notin processed
  /\ group' = << NameAt(i) >>
  /\ normalizedNameI' = NormalizedAt(i)
  /\ processed' = processed \cup { NameAt(i) }
  /\ j' = i + 1
  /\ pc' = "inner"
  /\ groupAt' = << i >>
  /\ UNCHANGED << names, normalizedNamesMap, groups, i, groupsAt, compared, scans >>
  /\ UNCHANGED normVars

\* Lines 62-65: names[j] is already processed, continue.
InnerSkip ==
  /\ pc = "inner"
  /\ j < Len(names)
  /\ NameAt(j) \in processed
  /\ j' = j + 1
  /\ UNCHANGED << names, normalizedNamesMap, groups, processed, i, group,
                  normalizedNameI, pc >>
  /\ histVarsSame
  /\ UNCHANGED normVars

\* Lines 67-72: the lengths differ by more than 10, break.  Reading .length
\* of undefined throws a TypeError, which ends the call; the || '' of lines
\* 59 and 67 makes both operands strings.
LengthBreak ==
  /\ pc = "inner"
  /\ j < Len(names)
  /\ NameAt(j) \notin processed
  /\ IF IsString(normalizedNameI) /\ IsString(NormalizedAt(j))
       THEN /\ TooDifferentInLength(normalizedNameI, NormalizedAt(j))
            /\ pc' = "emit"
            /\ scans' = scans \cup { [seed |-> i, at |-> j, why |-> "gap"] }
       ELSE /\ pc' = "threw"
            /\ scans' = scans
  /\ UNCHANGED << names, normalizedNamesMap, groups, processed, i, j, group,
                  normalizedNameI, groupAt, groupsAt, compared >>
  /\ UNCHANGED normVars

\* Seeded fault: processed.add(names[j]) of line 76 is missing.
SimilarNoMark ==
  /\ pc = "inner"
  /\ j < Len(names)
  /\ NameAt(j) \notin processed
  /\ IsString(normalizedNameI) /\ IsString(NormalizedAt(j))
  /\ ~TooDifferentInLength(normalizedNameI, NormalizedAt(j))
  /\ SimilarEnough(normalizedNameI, NormalizedAt(j))
  /\ group' = Append(group, NameAt(j))
  /\ j' = j + 1
  /\ groupAt' = Append(groupAt, j)
  /\ compared' = compared \cup { << i, j >> }
  /\ UNCHANGED << names, normalizedNamesMap, groups, processed, i, normalizedNameI,
                  pc, groupsAt, scans >>
  /\ UNCHANGED normVars

\* Lines 74-76: the names are similar enough, names[j] joins the group.
Similar ==
  /\ pc = "inner"
  /\ j < Len(names)
  /\ NameAt(j) \notin processed
  /\ IsString(normalizedNameI) /\ IsString(NormalizedAt(j))
  /\ ~TooDifferentInLength(normalizedNameI, NormalizedAt(j))
  /\ SimilarEnough(normalizedNameI, NormalizedAt(j))
  /\ group' = Append(group, NameAt(j))
  /\ processed' = processed \cup { NameAt(j) }
  /\ j' = j + 1
  /\ groupAt' = Append(groupAt, j)
  /\ compared' = compared \cup { << i, j >> }
  /\ UNCHANGED << names, normalizedNamesMap, groups, i, normalizedNameI, pc,
                  groupsAt, scans >>
  /\ UNCHANGED normVars

\* Seeded fault: "continue" instead of the "break" of line 79.
NotSimilarContinue ==
  /\ pc = "inner"
  /\ j < Len(names)
  /\ NameAt(j) \notin processed
  /\ IsString(normalizedNameI) /\ IsString(NormalizedAt(j))
  /\ ~TooDifferentInLength(normalizedNameI, NormalizedAt(j))
  /\ ~SimilarEnough(normalizedNameI, NormalizedAt(j))
  /\ j' = j + 1
  /\ compared' = compared \cup { << i, j >> }
  /\ UNCHANGED << names, normalizedNamesMap, groups, processed, i, group,
                  normalizedNameI, pc, groupAt, groupsAt, scans >>
  /\ UNCHANGED normVars

\* Lines 77-80: the names are not similar enough, break.
NotSimilar ==
  /\ pc = "inner"
  /\ j < Len(names)
  /\ NameAt(j) \notin processed
  /\ IsString(normalizedNameI) /\ IsString(NormalizedAt(j))
  /\ ~TooDifferentInLength(normalizedNameI, NormalizedAt(j))
  /\ ~SimilarEnough(normalizedNameI, NormalizedAt(j))
  /\ pc' = "emit"
  /\ compared' = compared \cup { << i, j >> }
  /\ scans' = scans \cup { [seed |-> i, at |-> j, why |-> "mismatch"] }
  /\ UNCHANGED << names, normalizedNamesMap, groups, processed, i, j, group,
                  normalizedNameI, groupAt, groupsAt >>
  /\ UNCHANGED normVars

\* Line 62: j reached names.length, the inner loop ends.
InnerEnd ==
  /\ pc = "inner"
  /\ j >= Len(names)
  /\ pc' = "emit"
  /\ scans' = scans \cup { [seed |-> i, at |-> j, why |-> "end"] }
  /\ UNCHANGED << names, normalizedNamesMap, groups, processed, i, j, group,
                  normalizedNameI, groupAt, groupsAt, compared >>
  /\ UNCHANGED normVars

\* Seeded fault: the test of line 83 is missing, every group is pushed.
EndGroupAlways ==
  /\ pc = "emit"
  /\ groups' = Append(groups, group)
  /\ groupsAt' = Append(groupsAt, groupAt)
  /\ i' = i + 1
  /\ pc' = "outer"
  /\ UNCHANGED << names, normalizedNamesMap, processed, j, group,
                  normalizedNameI, groupAt, compared, scans >>
  /\ UNCHANGED normVars

\* Seeded fault: groups.unshift(group) instead of groups.push(group).
EndGroupUnshift ==
  /\ pc = "emit"
  /\ groups' = IF Len(group) > 1 THEN << group >> \o groups ELSE groups
  /\ groupsAt' = IF Len(group) > 1 THEN << groupAt >> \o groupsAt ELSE groupsAt
  /\ i' = i + 1
  /\ pc' = "outer"
  /\ UNCHANGED << names, normalizedNamesMap, processed, j, group,
                  normalizedNameI, groupAt, compared, scans >>
  /\ UNCHANGED normVars

\* Lines 83-85 and the i++ of line 53: keep the group if it has more than one member.
EndGroup ==
  /\ pc = "emit"
  /\ groups' = IF Len(group) > 1 THEN Append(groups, group) ELSE groups
  /\ groupsAt' = IF Len(group) > 1 THEN Append(groupsAt, groupAt) ELSE groupsAt
  /\ i' = i + 1
  /\ pc' = "outer"
  /\ UNCHANGED << names, normalizedNamesMap, processed, j, group,
                  normalizedNameI, groupAt, compared, scans >>
  /\ UNCHANGED normVars

\* Lines 53 and 88: i reached names.length, return groups.
Return ==
  /\ pc = "outer"
  /\ i >= Len(names)
  /\ pc' = "done"
  /\ UNCHANGED << names, normalizedNamesMap, groups, processed, i, j, group,
                  normalizedNameI >>
  /\ histVarsSame
  /\ UNCHANGED normVars

Next ==
  \/ OuterSkip
  \/ StartGroup
  \/ InnerSkip
  \/ LengthBreak
  \/ Similar
  \/ NotSimilar
  \/ InnerEnd
  \/ EndGroup
  \/ Return

Spec == Init /\ [][Next]_vars

-----------------------------------------------------------------------------
(* Vocabulary of the properties *)

Positions == 0..(Len(names) - 1)

Missing(p) == NameAt(p) \notin DOMAIN normalizedNamesMap

\* The normalized form of the entry at p, an absent map entry read as ''.
NormOf(p) == IF Missing(p) THEN << >> ELSE normalizedNamesMap[NameAt(p)]

Distance(p, q) == levenshteinDistance(NormOf(p), NormOf(q))

LengthGap(p, q) == Abs(Len(NormOf(p)) - Len(NormOf(q)))

\* The scan of seed i stands at an entry j that is not yet placed
\* (line 63: names[j] is not in processed).
AtCandidate == pc = "inner" /\ j < Len(names) /\ NameAt(j) \notin processed

\* The entry at p started a scan that has ended.
WasSeed(p) == \E s \in scans : s.seed = p

\* The pushed groups hold the raw names at the recorded positions.
GroupsMatchPositions ==
  /\ Len(groups) = Len(groupsAt)
  /\ \A g \in DOMAIN groups :
       /\ Len(groups[g]) = Len(groupsAt[g])
       /\ \A k \in DOMAIN groups[g] : groups[g][k] = NameAt(groupsAt[g][k])

\* The longest run of entries from position q on, in input order, skipping
\* the entries whose name is in P (already placed), that are each within the
\* length gap and the threshold of the seed at s.
RECURSIVE LongestRun(_, _, _)
LongestRun(s, q, P) ==
  IF q >= Len(names) THEN << >>
  ELSE IF NameAt(q) \in P THEN LongestRun(s, q + 1, P)
  ELSE IF LengthGap(s, q) <= LENGTH_GAP_LIMIT
          /\ Distance(s, q) <= LEVENSHTEIN_THRESHOLD
    THEN << q >> \o LongestRun(s, q + 1, P \cup { NameAt(q) })
  ELSE << >>

\* The names placed when the scan of the current seed began (the seed included).
PlacedAtScanStart == (processed \ Range(group)) \cup { NameAt(i) }

-----------------------------------------------------------------------------
(* C1: every group findDuplicates pushes has at least 2 members; a seed     *)
(* that collected no other entry is discarded, never pushed as a singleton. *)
C1_NoSingletonGroups ==
  /\ \A g \in DOMAIN groups : Len(groups[g]) >= 2
  /\ \A g \in DOMAIN groupsAt : Len(groupsAt[g]) >= 2

\* The call has returned a group, and the scan of some seed collected
\* nothing: that seed starts no group.
C1_Witness ==
  /\ pc = "done"
  /\ Len(groups) >= 1
  /\ \E s \in scans : \A g \in DOMAIN groupsAt : groupsAt[g][1] # s.seed

(* C2: the groups are pairwise disjoint as sets of input positions: every   *)
(* input position is a member of at most one group (and occurs there once), *)
(* also when the same raw string occurs at several positions.               *)
C2_GroupsDisjoint ==
  /\ GroupsMatchPositions
  /\ \A g, h \in DOMAIN groupsAt :
       \A k \in DOMAIN groupsAt[g], m \in DOMAIN groupsAt[h] :
         groupsAt[g][k] = groupsAt[h][m] => (g = h /\ k = m)

\* The call has returned at least two groups.
C2_Witness ==
  /\ pc = "done"
  /\ Len(groupsAt) >= 2

(* C3, as claimed: placement is tracked per list position, so when a seed   *)
(* is directly followed by an entry holding the same raw string, that entry *)
(* is compared with the seed and joins its group (["Acme", "Acme"] yields   *)
(* one group holding both entries).                                         *)
C3_DuplicateEntryJoinsGroup ==
  pc = "done" =>
    \A p \in Positions :
      (p + 1 \in Positions /\ NameAt(p + 1) = NameAt(p) /\ WasSeed(p)) =>
        /\ << p, p + 1 >> \in compared
        /\ \E g \in DOMAIN groupsAt :
             groupsAt[g][1] = p /\ groupsAt[g][2] = p + 1

(* C4, as claimed: any two members of a group have normalized forms within  *)
(* the threshold of each other.                                             *)
C4_MembersMutuallyClose ==
  \A g \in DOMAIN groupsAt :
    \A k, m \in DOMAIN groupsAt[g] :
      Distance(groupsAt[g][k], groupsAt[g][m]) <= LEVENSHTEIN_THRESHOLD

(* C4, amended: every member of a group has a normalized form within the    *)
(* threshold of that of the entry that started the group; two members are   *)
(* within twice the threshold of each other.                                *)
C4_MembersCloseToSeed ==
  \A g \in DOMAIN groupsAt :
    /\ \A k \in DOMAIN groupsAt[g] :
         Distance(groupsAt[g][1], groupsAt[g][k]) <= LEVENSHTEIN_THRESHOLD
    /\ \A k, m \in DOMAIN groupsAt[g] :
         Distance(groupsAt[g][k], groupsAt[g][m]) <= 2 * LEVENSHTEIN_THRESHOLD

\* A returned group holds two members farther apart than the threshold.
C4_Witness ==
  /\ pc = "done"
  /\ \E g \in DOMAIN groupsAt :
       \E k, m \in DOMAIN groupsAt[g] :
         Distance(groupsAt[g][k], groupsAt[g][m]) > LEVENSHTEIN_THRESHOLD

(* C5: the first not-yet-placed entry j after a seed i joins the group of i *)
(* when the distance of their normalized forms is at most the threshold     *)
(* (0 or 1), and does not join it when the distance is threshold+1 or more: *)
(* the scan of i then ends with the group holding the seed alone.           *)
C5_ThresholdCutoff ==
  [][ (AtCandidate /\ groupAt = << i >>) =>
        /\ Distance(i, j) <= LEVENSHTEIN_THRESHOLD =>
             (groupAt' = << i, j >> /\ group' = << NameAt(i), NameAt(j) >>)
        /\ Distance(i, j) >= LEVENSHTEIN_THRESHOLD + 1 =>
             (groupAt' = << i >> /\ group' = << NameAt(i) >> /\ pc' = "emit")
    ]_vars

\* The first candidate of a seed has joined at a distance of exactly the threshold.
C5_Witness ==
  /\ pc = "inner"
  /\ Len(groupAt) = 2
  /\ j = groupAt[2] + 1
  /\ Distance(groupAt[1], groupAt[2]) = LEVENSHTEIN_THRESHOLD

(* C6, as claimed: at a not-yet-placed entry j whose normalized length      *)
(* differs from the seed's by more than 10 the two are not compared, the    *)
(* scan stops at j and the group stays as it is; a length difference of     *)
(* exactly 10 does not stop the scan.                                       *)
C6_LengthGapAsClaimed ==
  [][ AtCandidate =>
        /\ LengthGap(i, j) > LENGTH_GAP_LIMIT =>
             (<< i, j >> \notin compared' /\ pc' = "emit" /\ groupAt' = groupAt)
        /\ LengthGap(i, j) = LENGTH_GAP_LIMIT =>
             (pc' = "inner" /\ j' = j + 1)
    ]_vars

(* C6, amended: at a not-yet-placed entry j whose normalized length differs *)
(* from the seed's by more than 10 the two are not compared, the scan stops *)
(* at j, and neither j nor a later entry joins the group; at a difference   *)
(* of exactly 10 the length test does not fire: the two are compared, and   *)
(* the scan stops at j all the same, by the not-similar branch, the         *)
(* distance being at least 10.                                              *)
C6_LengthGapPruning ==
  /\ [][ AtCandidate =>
           /\ LengthGap(i, j) > LENGTH_GAP_LIMIT =>
                (<< i, j >> \notin compared' /\ pc' = "emit" /\ groupAt' = groupAt)
           /\ LengthGap(i, j) = LENGTH_GAP_LIMIT =>
                (<< i, j >> \in compared' /\ pc' = "emit" /\ groupAt' = groupAt)
       ]_vars
  /\ [](\A s \in scans :
          s.why = "gap" =>
            /\ << s.seed, s.at >> \notin compared
            /\ \A g \in DOMAIN groupsAt :
                 groupsAt[g][1] = s.seed =>
                   \A k \in DOMAIN groupsAt[g] : groupsAt[g][k] < s.at)

\* A scan was stopped by the length test before an entry that is within the
\* threshold of the seed, and another scan met a difference of exactly 10.
C6_Witness ==
  /\ pc = "done"
  /\ \E s \in scans :
       /\ s.why = "gap"
       /\ \E q \in Positions : q > s.at /\ Distance(s.seed, q) <= LEVENSHTEIN_THRESHOLD
  /\ \E s \in scans :
       s.why = "mismatch" /\ LengthGap(s.seed, s.at) = LENGTH_GAP_LIMIT

(* C7: the groups are in increasing order of the input position of the      *)
(* entry that started them; the first member of a group is that entry and   *)
(* the members are in increasing input position.                            *)
C7_OutputOrdering ==
  /\ GroupsMatchPositions
  /\ \A g, h \in DOMAIN groupsAt : g < h => groupsAt[g][1] < groupsAt[h][1]
  /\ \A g \in DOMAIN groupsAt :
       /\ WasSeed(groupsAt[g][1])
       /\ \A k, m \in DOMAIN groupsAt[g] : k < m => groupsAt[g][k] < groupsAt[g][m]

\* Two groups were returned, the second started after the members of the first.
C7_Witness ==
  /\ pc = "done"
  /\ Len(groupsAt) = 2
  /\ groupsAt[1][2] < groupsAt[2][1]

(* C8: with a raw name absent from the map findDuplicates does not fail    *)
(* (it throws nothing and returns), and every group is the one computed     *)
(* with '' as the normalized form of that name (length 0, distance to s the *)
(* length of s), be the name the seed or the candidate.                     *)
C8_MissingEntryReadAsEmpty ==
  /\ (pc \in {"inner", "emit"} /\ Missing(i)) => normalizedNameI = << >>
  /\ (pc = "emit" /\ \E p \in Positions : Missing(p)) =>
       Tail(groupAt) = LongestRun(i, i + 1, PlacedAtScanStart)
  /\ \A c \in compared :
       /\ Missing(c[1]) => levenshteinDistance(NormOf(c[1]), NormOf(c[2])) = Len(NormOf(c[2]))
       /\ Missing(c[2]) => levenshteinDistance(NormOf(c[1]), NormOf(c[2])) = Len(NormOf(c[1]))
  /\ pc # "threw"

\* The call has returned a group one of whose members has no map entry.
C8_Witness ==
  /\ pc = "done"
  /\ \E g \in DOMAIN groupsAt : \E k \in DOMAIN groupsAt[g] : Missing(groupsAt[g][k])

(* C10: the scan of a seed ends at the first not-yet-placed entry that is   *)
(* farther than the threshold from the seed: the members after the seed are *)
(* exactly the longest run of entries after it, in input order and skipping *)
(* the entries already placed, that are each within the length gap and the  *)
(* threshold of the seed; the entry that ended the scan stays unplaced and  *)
(* is later tried as a seed.                                                *)
C10_BreakOnFirstNonMatch ==
  /\ pc = "emit" => Tail(groupAt) = LongestRun(i, i + 1, PlacedAtScanStart)
  /\ \A s \in scans :
       s.why = "mismatch" =>
         /\ \A k \in DOMAIN groupAt : groupAt[1] = s.seed => groupAt[k] < s.at
         /\ \A g \in DOMAIN groupsAt :
              groupsAt[g][1] = s.seed =>
                \A k \in DOMAIN groupsAt[g] : groupsAt[g][k] < s.at
         /\ (pc = "emit" /\ i = s.seed) => NameAt(s.at) \notin processed
         /\ (i > s.at \/ pc = "done") => WasSeed(s.at)

\* A scan ended at an entry too far from the seed although a later,
\* unplaced entry is within the threshold of the seed.
C10_Witness ==
  /\ pc = "done"
  /\ \E s \in scans :
       /\ s.why = "mismatch"
       /\ WasSeed(s.at)
       /\ \E q \in Positions :
            /\ q > s.at
            /\ NameAt(q) # NameAt(s.seed)
            /\ Distance(s.seed, q) <= LEVENSHTEIN_THRESHOLD

-----------------------------------------------------------------------------
(* A call of normalizeCompanyName on its own *)

InitNorm ==
  /\ input \in NormInputs
  /\ output = << >>
  /\ npc = "call"
  /\ names = << >>
  /\ normalizedNamesMap = BuiltMap({})
  /\ groups = << >>
  /\ processed = {}
  /\ i = 0
  /\ j = 0
  /\ group = << >>
  /\ normalizedNameI = << >>
  /\ pc = "idle"
  /\ groupAt = << >>
  /\ groupsAt = << >>
  /\ compared = {}
  /\ scans = {}

\* Lines 28-39.
Normalize ==
  /\ npc = "call"
  /\ output' = normalizeCompanyName(input)
  /\ npc' = "returned"
  /\ UNCHANGED input
  /\ UNCHANGED clusterVars

NextNorm == Normalize

SpecNorm == InitNorm /\ [][NextNorm]_vars

-----------------------------------------------------------------------------
\* The letters and the other word characters of the repertoire: \w and the
\* letters outside ASCII (feminine and masculine ordinal, micro sign, the
\* letters of Latin-1 Supplement and Latin Extended-A).
LettersAndWordChars ==
  WordChars \cup {170, 181, 186} \cup (192..214) \cup (216..246) \cup (248..383)

(* C9, as claimed: after lowercasing and diacritic stripping, every         *)
(* occurrence of a token of COMPANY_TYPES that stands as a complete word is *)
(* removed, wherever in the string, and an occurrence embedded in a longer  *)
(* word is kept, also when the neighbouring letter of that word is a letter *)
(* outside ASCII that survives diacritic stripping.                         *)
C9_WholeWordsOnly ==
  npc = "returned" =>
    output = trim(collapseWhiteSpace(
               ReplaceFrom(stripDiacritics(normalizeNFD(toLowerCase(input))),
                           1, LettersAndWordChars)))

=============================================================================
